---- MODULE Spec2Model ----
(***************************************************************************)
(* Explorer page of the population dashboard: the MapLibre controller      *)
(* (dashboard/js/maps/explorer-map.js) and the page that drives it         *)
(* (dashboard/js/pages/explorer.js).                                       *)
(*                                                                         *)
(* JavaScript runs one handler at a time; a handler gives up control only  *)
(* at an await.  Every action below is therefore one run of a handler from *)
(* an event (or from the resumption of an await) to its next await or its  *)
(* end.  Suspended handlers are the elements of the bag `tasks`.           *)
(*                                                                         *)
(* Zoom levels are written in tenths (zoom 7.5 is 75).                     *)
(* The model covers one entry of the view, from the map's "load" event on. *)
(***************************************************************************)
EXTENDS Integers, Sequences, FiniteSets, Bags, TLC

VARIABLES
  map,          \* closure state of createExplorerMap and the map's style
  breadcrumb,   \* explorer.js: breadcrumb
  selectedUnit, \* explorer.js: selectedUnit
  activeLevel,  \* explorer.js: activeLevel
  info,         \* content of #explorer-unit-info
  legend,       \* color scale shown by the legend overlay
  filterState,  \* filters.js: state (the sex filter)
  ageFilter,    \* filters.js: state.ageMin, state.ageMax, and the snapshots the
                \* last change of the age filter delivered to the listeners
  tasks,        \* bag of suspended async handlers
  view,         \* explorer.js: mapController, the map panel, and the closures of
                \* earlier entries whose filter listeners are still registered
  lastOp        \* history: the handler that made the last step, and what it did

vars == <<map, breadcrumb, selectedUnit, activeLevel, info, legend, filterState, ageFilter,
          tasks, view, lastOp>>

(***************************************************************************)
(* Bounds of the model                                                     *)
(***************************************************************************)
\* suspended canton/iris load handlers
MaxLoads == 2
\* suspended filter-change handlers
MaxRefresh == 1
\* suspended unit-click handlers
MaxDetail == 1
\* suspended canton/iris load handlers while the user navigates by clicks
MaxNavLoads == 1
\* re-entries of the view (calls of renderExplorer after the first)
MaxReentry == 1
\* suspended handlers of one kind when the user's actions overlap
MaxOverlap == 2
\* the largest age of the data (state.dbAgeMax); the smallest is 0
MaxAge == 2
\* click handlers counted on one sub-level layer (the count stops there)
MaxListeners == 2

(***************************************************************************)
(* Program constants                                                       *)
(***************************************************************************)
FRANCE_ZOOM == 55
DEPT_FADE_OUT == 80
EPCI_FADE_IN == 65
EPCI_FADE_OUT == 100
CANTON_ZOOM_THRESHOLD == 90
CANTON_ZOOM_OUT == 80
IRIS_ZOOM_THRESHOLD == 110
CANTON_SOURCE_ID == "canton-geojson"
IRIS_SOURCE_ID == "iris-geojson"

(***************************************************************************)
(* Inputs                                                                  *)
(***************************************************************************)
Null == "null"
Depts == {"75", "92"}
\* one zoom per band of the threshold table, each at the band's lower edge
Zooms == {55, 75, 80, 90, 100, 110}
SexValues == {"all", "female"}
\* aggregate rows of a canton query: two rows (all zero) or three rows
RowSets == {<<0, 0>>, <<7, 5, 3>>}
\* aggregate rows of an iris query
IrisRowSets == {<<4, 0>>}
\* outcomes of the boundary asset fetch
FetchOutcomes == {"ok", "notok", "throw", "empty"}
\* outcomes of the awaited queries: failure, success, or success with rows
Threw == <<"throw">>
NoView == <<"noview">>
Ok == <<"ok">>
RowOutcomes == {<<"rows", v>> : v \in RowSets}
\* aggregate rows of the canton re-query after a filter change
RefreshRowSets == {<<>>, <<0, 0>>, <<7, 5, 3>>}
RefreshRowOutcomes == {<<"rows", v>> : v \in RefreshRowSets}
IrisRowOutcomes == {<<"rows", v>> : v \in IrisRowSets}
Levels == {"department", "epci", "canton", "iris"}
\* the zooms of the flyTo targets and of the load thresholds
NavZooms == {55, 80, 90, 110}

Max(S) == CHOOSE x \in S : \A y \in S : y <= x
Range(q) == {q[i] : i \in DOMAIN q}

\* rows returned by an aggregate query, with the department and filter that scoped it
Rows(level, dept, f, vals) == [level |-> level, dept |-> dept, f |-> f, vals |-> vals]
\* department and EPCI rankings are a fixed function of the filter
RankingVals(level, f) ==
  IF level = "department" THEN (IF f = "all" THEN <<9, 6>> ELSE <<5, 3>>)
  ELSE (IF f = "all" THEN <<4, 2>> ELSE <<2, 1>>)
Ranking(level, f) == Rows(level, Null, f, RankingVals(level, f))

EmptyMap == [level |-> Null, dept |-> Null, f |-> Null, vals |-> <<>>]
\* a color scale variable holding null
NoScale == [lower |-> 0, upper |-> 0, level |-> Null, dept |-> Null, f |-> Null]
\* selectedUnit holding null
NoUnit == [level |-> Null, code |-> Null]

(***************************************************************************)
(* explorer-map.js                                                         *)
(***************************************************************************)
\* variant: the maximum is taken without the floor of 1
makeColorScaleNoFloor(data) ==
  [lower |-> 0, upper |-> Max(Range(data.vals) \cup {0}),
   level |-> data.level, dept |-> data.dept, f |-> data.f]

makeColorScale(data) ==
  [lower |-> 0, upper |-> Max(Range(data.vals) \cup {1}),
   level |-> data.level, dept |-> data.dept, f |-> data.f]

hasLayer(m, id) == \E i \in DOMAIN m.layers : m.layers[i] = id
removeLayer(m, id) == [m EXCEPT !.layers = SelectSeq(@, LAMBDA l : l # id)]
IndexOf(q, x) == CHOOSE i \in DOMAIN q : q[i] = x
\* map.addLayer(layer, beforeId)
addLayer(m, id, before) ==
  LET k == IndexOf(m.layers, before)
  IN [m EXCEPT !.layers = SubSeq(@, 1, k - 1) \o <<id>> \o SubSeq(@, k, Len(@))]

applyColors(m, dData, eData) ==
  [m EXCEPT !.deptPopMap = dData, !.deptColorScale = makeColorScale(dData),
            !.epciPopMap = eData, !.epciColorScale = makeColorScale(eData)]

\* variant: the population map and the scale survive a clear
clearCantonLayerKeepsData(m) ==
  LET m1 == removeLayer(removeLayer(m, "canton-fill"), "canton-outline")
  IN [m1 EXCEPT !.cantonSource = Null, !.loadedCantonDept = Null,
                !.cantonCodeKey = Null, !.cantonLoadingDept = Null]


clearCantonLayer(m) ==
  LET m1 == removeLayer(removeLayer(m, "canton-fill"), "canton-outline")
  IN [m1 EXCEPT !.cantonSource = Null, !.cantonPopMap = EmptyMap,
                !.cantonColorScale = NoScale, !.loadedCantonDept = Null,
                !.cantonCodeKey = Null, !.cantonLoadingDept = Null]

\* variant: the in-flight marker survives a clear
clearIrisLayerKeepsMarker(m) ==
  LET m1 == removeLayer(removeLayer(m, "iris-fill"), "iris-outline")
  IN [m1 EXCEPT !.irisSource = Null, !.irisPopMap = EmptyMap,
                !.irisColorScale = NoScale, !.loadedIrisDept = Null,
                !.irisCodeKey = Null]

clearIrisLayer(m) ==
  LET m1 == removeLayer(removeLayer(m, "iris-fill"), "iris-outline")
  IN [m1 EXCEPT !.irisSource = Null, !.irisPopMap = EmptyMap,
                !.irisColorScale = NoScale, !.loadedIrisDept = Null,
                !.irisCodeKey = Null, !.irisLoadingDept = Null]

\* variant: the center department is overwritten when none is found
detectCenterDepartmentResets(m, c) == [m EXCEPT !.centerDeptCode = c]

detectCenterDepartment(m, c) ==
  IF c # Null THEN [m EXCEPT !.centerDeptCode = c] ELSE m

updateCanton(m, cantonData) ==
  IF ~hasLayer(m, "canton-fill") \/ m.cantonCodeKey = Null THEN m
  ELSE [m EXCEPT !.cantonPopMap = cantonData, !.cantonColorScale = makeColorScale(cantonData)]

updateIris(m, irisData) ==
  IF ~hasLayer(m, "iris-fill") \/ m.irisCodeKey = Null THEN m
  ELSE [m EXCEPT !.irisPopMap = irisData, !.irisColorScale = makeColorScale(irisData)]

\* variant: a request for the resident department clears and fetches again
loadCantonBeginAlwaysFetches(m, deptCode) ==
  [done |-> FALSE, map |-> clearCantonLayer(m)]

\* loadCanton up to its first await: [done, map]
loadCantonBegin(m, deptCode) ==
  IF m.loadedCantonDept = deptCode
  THEN [done |-> TRUE, map |-> [m EXCEPT !.cantonLoadingDept = Null]]
  ELSE [done |-> FALSE, map |-> clearCantonLayer(m)]

\* setupCantonInteractions, setupIrisInteractions: one more click handler is
\* registered for the layer; none is ever removed (no map.off in the file).
\* Only the dispatch of a click reads the registrations, so they are counted
\* in the behaviours that start with countHandlers set and left out of the
\* state in the others.
setupCantonInteractions(m) ==
  IF ~hasLayer(m, "canton-fill") \/ ~m.countHandlers THEN m
  ELSE [m EXCEPT !.cantonClickHandlers = IF @ < MaxListeners THEN @ + 1 ELSE @]

setupIrisInteractions(m) ==
  IF ~hasLayer(m, "iris-fill") \/ ~m.countHandlers THEN m
  ELSE [m EXCEPT !.irisClickHandlers = IF @ < MaxListeners THEN @ + 1 ELSE @]

\* variant: the canton layers always go right beneath the labels
loadCantonEndBeforeLabels(m, deptCode, cantonData, outcome) ==
  IF outcome # "ok"
  THEN [threw |-> FALSE, map |-> [m EXCEPT !.cantonLoadingDept = Null]]
  ELSE LET m1 == [m EXCEPT !.cantonCodeKey = "canton_code",
                           !.cantonPopMap = cantonData,
                           !.cantonColorScale = makeColorScale(cantonData)]
           before == IF hasLayer(m1, "road-label") THEN "road-label" ELSE "place-city"
           m2 == addLayer(addLayer([m1 EXCEPT !.cantonSource = deptCode],
                                   "canton-fill", before), "canton-outline", before)
       IN IF m1.cantonSource # Null
          THEN [threw |-> TRUE, map |-> m1]
          ELSE [threw |-> FALSE,
                map |-> setupCantonInteractions([m2 EXCEPT !.loadedCantonDept = deptCode,
                                                            !.cantonLoadingDept = Null])]

\* loadCanton from the boundary fetch's outcome to its end: [threw, map].
\* map.addSource throws when the source id is already in the style.
loadCantonEnd(m, deptCode, cantonData, outcome) ==
  IF outcome # "ok"
  THEN [threw |-> FALSE, map |-> [m EXCEPT !.cantonLoadingDept = Null]]
  ELSE LET m1 == [m EXCEPT !.cantonCodeKey = "canton_code",
                           !.cantonPopMap = cantonData,
                           !.cantonColorScale = makeColorScale(cantonData)]
           before == IF hasLayer(m1, "iris-fill") THEN "iris-fill"
                     ELSE IF hasLayer(m1, "road-label") THEN "road-label" ELSE "place-city"
           m2 == addLayer(addLayer([m1 EXCEPT !.cantonSource = deptCode],
                                   "canton-fill", before), "canton-outline", before)
       IN IF m1.cantonSource # Null
          THEN [threw |-> TRUE, map |-> m1]
          ELSE [threw |-> FALSE,
                map |-> setupCantonInteractions([m2 EXCEPT !.loadedCantonDept = deptCode,
                                                            !.cantonLoadingDept = Null])]

loadIrisBegin(m, deptCode) ==
  IF m.loadedIrisDept = deptCode
  THEN [done |-> TRUE, map |-> [m EXCEPT !.irisLoadingDept = Null]]
  ELSE [done |-> FALSE, map |-> clearIrisLayer(m)]

loadIrisEnd(m, deptCode, irisData, outcome) ==
  IF outcome # "ok"
  THEN [threw |-> FALSE, map |-> [m EXCEPT !.irisLoadingDept = Null]]
  ELSE LET m1 == [m EXCEPT !.irisCodeKey = "iris_code",
                           !.irisPopMap = irisData,
                           !.irisColorScale = makeColorScale(irisData)]
           before == IF hasLayer(m1, "road-label") THEN "road-label" ELSE "place-city"
           m2 == addLayer(addLayer([m1 EXCEPT !.irisSource = deptCode],
                                   "iris-fill", before), "iris-outline", before)
       IN IF m1.irisSource # Null
          THEN [threw |-> TRUE, map |-> m1]
          ELSE [threw |-> FALSE,
                map |-> setupIrisInteractions([m2 EXCEPT !.loadedIrisDept = deptCode,
                                                          !.irisLoadingDept = Null])]

getColorScale(m, level) ==
  IF level = "iris" THEN m.irisColorScale
  ELSE IF level = "canton" THEN m.cantonColorScale
  ELSE IF level = "epci" THEN m.epciColorScale
  ELSE m.deptColorScale

(***************************************************************************)
(* explorer.js.  A handler run is a function on the record                 *)
(* [map, breadcrumb, selectedUnit, activeLevel, info, legend, tasks, view,  *)
(* did]; `did` logs what the run did (history only, never read by a        *)
(* handler).                                                               *)
(***************************************************************************)
\* a suspended handler
Task(kind, pc, dept, f, data, unit, via) ==
  [kind |-> kind, pc |-> pc, dept |-> dept, f |-> f, data |-> data, unit |-> unit, via |-> via]
Suspend(w, t) == [w EXCEPT !.tasks = @ (+) SetToBag({t})]
Note(w, e) == [w EXCEPT !.did = @ \cup {e}]

NationRoot == [level |-> "department", code |-> Null]
resetBreadcrumb(w) == [w EXCEPT !.breadcrumb = <<NationRoot>>]

updateLegend(w, level) ==
  LET cs == getColorScale(w.map, level)
  IN IF w.view.mapController # Null /\ cs # NoScale THEN [w EXCEPT !.legend = cs] ELSE w

\* variant: the canton and iris bands are exchanged
onZoomChangeSwapped(w, zoom) ==
  LET lvl == IF zoom >= 110 THEN "canton"
             ELSE IF zoom >= 90 THEN "iris"
             ELSE IF zoom >= 75 THEN "epci"
             ELSE "department"
  IN updateLegend([w EXCEPT !.activeLevel = lvl], lvl)

\* variant: the epci band starts at DEPT_FADE_OUT instead of 7.5
onZoomChangeLateEpci(w, zoom) ==
  LET lvl == IF zoom >= 110 THEN "iris"
             ELSE IF zoom >= 90 THEN "canton"
             ELSE IF zoom >= DEPT_FADE_OUT THEN "epci"
             ELSE "department"
  IN updateLegend([w EXCEPT !.activeLevel = lvl], lvl)

\* variant: the level falls back to what is resident
onZoomChangeFallback(w, zoom) ==
  LET lvl == IF zoom >= 110 /\ w.map.loadedIrisDept # Null THEN "iris"
             ELSE IF zoom >= 110 /\ w.map.loadedCantonDept # Null THEN "canton"
             ELSE IF /\ zoom >= 90 /\ zoom < 110
                     /\ w.map.loadedCantonDept # Null
                     /\ w.map.loadedCantonDept = w.map.centerDeptCode THEN "canton"
             ELSE IF zoom >= 75 THEN "epci"
             ELSE "department"
  IN updateLegend([w EXCEPT !.activeLevel = lvl], lvl)


onZoomChange(w, zoom) ==
  LET lvl == IF zoom >= 110 THEN "iris"
             ELSE IF zoom >= 90 THEN "canton"
             ELSE IF zoom >= 75 THEN "epci"
             ELSE "department"
  IN updateLegend([w EXCEPT !.activeLevel = lvl], lvl)

\* handleIrisNeeded up to its first await
handleIrisNeeded(w, deptCode, f, via) ==
  Note(Suspend([w EXCEPT !.info = <<"loading", "iris", deptCode>>],
               Task("iris", "data", deptCode, f, EmptyMap, NoUnit, via)),
       "irisLoad")

\* handleIrisNeeded after mapController.loadIris has returned or thrown
irisLoaded(w, t, data, r) ==
  IF r.threw
  THEN Note([w EXCEPT !.map = r.map, !.info = <<"error", "iris", t.dept>>],
            "irisThrew")
  ELSE LET w1 == updateLegend([w EXCEPT !.map = r.map, !.activeLevel = "iris"], "iris")
       IN [w1 EXCEPT !.info = <<"summary", "iris", t.dept, Len(data.vals)>>]

\* handleIrisNeeded from the outcome of loadIrisDepartment and the aggregate
\* query (NoView, Threw or rows) to the next await
irisData(w, t, outcome) ==
  IF outcome = NoView THEN [w EXCEPT !.info = <<"unavailable", "iris", t.dept>>]
  ELSE IF outcome = Threw THEN [w EXCEPT !.info = <<"error", "iris", t.dept>>]
  ELSE LET data == Rows("iris", t.dept, t.f, outcome[2])
           b == loadIrisBegin(w.map, t.dept)
       IN IF b.done
          THEN Note(irisLoaded(w, t, data, [threw |-> FALSE, map |-> b.map]),
                    "irisResident")
          ELSE Suspend([w EXCEPT !.map = b.map], [t EXCEPT !.pc = "fetch", !.data = data])

\* handleIrisNeeded from the outcome of the boundary fetch to its end
irisFetched(w, t, outcome) ==
  LET r == loadIrisEnd(w.map, t.dept, t.data, outcome)
      w1 == IF outcome = "ok" /\ ~r.threw THEN Note(w, "irisInstalled") ELSE w
  IN irisLoaded(w1, t, t.data, r)

\* handleCantonNeeded up to its first await
handleCantonNeeded(w, deptCode, f) ==
  Note(Suspend([w EXCEPT !.info = <<"loading", "canton", deptCode>>],
               Task("canton", "data", deptCode, f, EmptyMap, NoUnit, "moveend")),
       "cantonLoad")

cantonLoaded(w, t, data, r) ==
  IF r.threw
  THEN Note([w EXCEPT !.map = r.map, !.info = <<"error", "canton", t.dept>>],
            "cantonThrew")
  ELSE LET w1 == updateLegend([w EXCEPT !.map = r.map, !.activeLevel = "canton"], "canton")
       IN [w1 EXCEPT !.info = <<"summary", "canton", t.dept, Len(data.vals)>>]

\* variant: only fewer than 2 rows skip to IRIS
cantonDataFewerThanTwo(w, t, outcome) ==
  IF outcome = NoView THEN [w EXCEPT !.info = <<"unavailable", "canton", t.dept>>]
  ELSE IF outcome = Threw THEN [w EXCEPT !.info = <<"error", "canton", t.dept>>]
  ELSE LET data == Rows("canton", t.dept, t.f, outcome[2])
           b == loadCantonBegin(w.map, t.dept)
       IN IF Len(data.vals) < 2
          THEN Note(handleIrisNeeded([w EXCEPT !.info = <<"fewCantons", t.dept>>],
                                     t.dept, t.f, "canton"),
                    "fewCantons")
          ELSE IF b.done
          THEN Note(cantonLoaded(w, t, data, [threw |-> FALSE, map |-> b.map]),
                    "cantonResident")
          ELSE Suspend([w EXCEPT !.map = b.map], [t EXCEPT !.pc = "fetch", !.data = data])


cantonData(w, t, outcome) ==
  IF outcome = NoView THEN [w EXCEPT !.info = <<"unavailable", "canton", t.dept>>]
  ELSE IF outcome = Threw THEN [w EXCEPT !.info = <<"error", "canton", t.dept>>]
  ELSE LET data == Rows("canton", t.dept, t.f, outcome[2])
           b == loadCantonBegin(w.map, t.dept)
       IN IF Len(data.vals) <= 2
          THEN Note(handleIrisNeeded([w EXCEPT !.info = <<"fewCantons", t.dept>>],
                                     t.dept, t.f, "canton"),
                    "fewCantons")
          ELSE IF b.done
          THEN Note(cantonLoaded(w, t, data, [threw |-> FALSE, map |-> b.map]),
                    "cantonResident")
          ELSE Suspend([w EXCEPT !.map = b.map], [t EXCEPT !.pc = "fetch", !.data = data])

cantonFetched(w, t, outcome) ==
  LET r == loadCantonEnd(w.map, t.dept, t.data, outcome)
      w1 == IF outcome = "ok" /\ ~r.threw THEN Note(w, "cantonInstalled") ELSE w
  IN cantonLoaded(w1, t, t.data, r)

\* variant: the canton request does not look at the in-flight marker
moveendIgnoresMarker(w0, zoom, c, f) ==
  LET w == [w0 EXCEPT !.map = detectCenterDepartment([@ EXCEPT !.zoom = zoom, !.flyTarget = 0], c)]
      w1 == onZoomChange(w, zoom)
      ctr == w1.map.centerDeptCode
      w2 == IF /\ zoom >= CANTON_ZOOM_THRESHOLD /\ ctr # Null
               /\ w1.map.loadedCantonDept # ctr
            THEN handleCantonNeeded([w1 EXCEPT !.map.cantonLoadingDept = ctr], ctr, f)
            ELSE w1
      w3 == IF zoom < CANTON_ZOOM_OUT /\ w2.map.loadedCantonDept # Null
            THEN Note([w2 EXCEPT !.map = clearCantonLayer(@)], "cantonEvict")
            ELSE w2
      w4 == IF /\ zoom >= IRIS_ZOOM_THRESHOLD /\ ctr # Null
               /\ w3.map.loadedIrisDept # ctr /\ w3.map.irisLoadingDept # ctr
            THEN handleIrisNeeded([w3 EXCEPT !.map.irisLoadingDept = ctr], ctr, f, "moveend")
            ELSE w3
  IN IF zoom < IRIS_ZOOM_THRESHOLD - 10 /\ w4.map.loadedIrisDept # Null
     THEN Note([w4 EXCEPT !.map = clearIrisLayer(@)], "irisEvict")
     ELSE w4

\* variant: the canton set is evicted below the load threshold (no hysteresis)
moveendNoHysteresis(w0, zoom, c, f) ==
  LET w == [w0 EXCEPT !.map = detectCenterDepartment([@ EXCEPT !.zoom = zoom, !.flyTarget = 0], c)]
      w1 == onZoomChange(w, zoom)
      ctr == w1.map.centerDeptCode
      w2 == IF /\ zoom >= CANTON_ZOOM_THRESHOLD /\ ctr # Null
               /\ w1.map.loadedCantonDept # ctr /\ w1.map.cantonLoadingDept # ctr
            THEN handleCantonNeeded([w1 EXCEPT !.map.cantonLoadingDept = ctr], ctr, f)
            ELSE w1
      w3 == IF zoom < CANTON_ZOOM_THRESHOLD /\ w2.map.loadedCantonDept # Null
            THEN Note([w2 EXCEPT !.map = clearCantonLayer(@)], "cantonEvict")
            ELSE w2
      w4 == IF /\ zoom >= IRIS_ZOOM_THRESHOLD /\ ctr # Null
               /\ w3.map.loadedIrisDept # ctr /\ w3.map.irisLoadingDept # ctr
            THEN handleIrisNeeded([w3 EXCEPT !.map.irisLoadingDept = ctr], ctr, f, "moveend")
            ELSE w3
  IN IF zoom < IRIS_ZOOM_THRESHOLD - 10 /\ w4.map.loadedIrisDept # Null
     THEN Note([w4 EXCEPT !.map = clearIrisLayer(@)], "irisEvict")
     ELSE w4

\* the map's "moveend" handler: the view settles at `zoom`, with department
\* `c` (or none: Null) under the viewport center
moveend(w0, zoom, c, f) ==
  LET w == [w0 EXCEPT !.map = detectCenterDepartment([@ EXCEPT !.zoom = zoom, !.flyTarget = 0], c)]
      w1 == onZoomChange(w, zoom)
      ctr == w1.map.centerDeptCode
      w2 == IF /\ zoom >= CANTON_ZOOM_THRESHOLD /\ ctr # Null
               /\ w1.map.loadedCantonDept # ctr /\ w1.map.cantonLoadingDept # ctr
            THEN handleCantonNeeded([w1 EXCEPT !.map.cantonLoadingDept = ctr], ctr, f)
            ELSE w1
      w3 == IF zoom < CANTON_ZOOM_OUT /\ w2.map.loadedCantonDept # Null
            THEN Note([w2 EXCEPT !.map = clearCantonLayer(@)], "cantonEvict")
            ELSE w2
      w4 == IF /\ zoom >= IRIS_ZOOM_THRESHOLD /\ ctr # Null
               /\ w3.map.loadedIrisDept # ctr /\ w3.map.irisLoadingDept # ctr
            THEN handleIrisNeeded([w3 EXCEPT !.map.irisLoadingDept = ctr], ctr, f, "moveend")
            ELSE w3
  IN IF zoom < IRIS_ZOOM_THRESHOLD - 10 /\ w4.map.loadedIrisDept # Null
     THEN Note([w4 EXCEPT !.map = clearIrisLayer(@)], "irisEvict")
     ELSE w4

(***************************************************************************)
(* explorer-sidebar.js: showUnitDetail                                     *)
(***************************************************************************)
\* showUnitDetail up to its await: [done, w, dept]; dept is the department
\* whose canton/iris view the detail queries read
showUnitDetailBegin(w, unit) ==
  LET w1 == [w EXCEPT !.info = <<"loading", "detail">>]
      deptCode == IF unit.level = "canton" THEN w.map.loadedCantonDept
                  ELSE IF unit.level = "iris" THEN w.map.loadedIrisDept
                  ELSE Null
  IN IF unit.level \in {"canton", "iris"} /\ deptCode = Null
     THEN [done |-> TRUE, w |-> [w1 EXCEPT !.info = <<"name", unit.level, unit.code>>], dept |-> Null]
     ELSE [done |-> FALSE, w |-> w1, dept |-> deptCode]

\* showUnitDetail from the outcome of its three queries to its end
showUnitDetailEnd(w, t, outcome) ==
  IF outcome = Threw THEN [w EXCEPT !.info = <<"error", "detail">>]
  ELSE [w EXCEPT !.info = <<"detail", t.unit.level, t.unit.code, t.dept, t.f>>]

(***************************************************************************)
(* explorer.js: unit click, breadcrumb, filter change                      *)
(***************************************************************************)
\* the path built by onUnitClick after resetBreadcrumb
pushUnit(w, unit) ==
  LET deptCode == IF unit.level = "canton" THEN w.map.loadedCantonDept
                  ELSE IF unit.level = "iris" THEN w.map.loadedIrisDept
                  ELSE Null
      anc == IF unit.level \in {"canton", "iris"} /\ deptCode # Null
             THEN <<[level |-> "department", code |-> deptCode]>> ELSE <<>>
  IN [w EXCEPT !.breadcrumb = @ \o anc \o <<unit>>]

\* variant: the clicked unit is appended to the path as it stands
onUnitClickAppends(w, unit, f) ==
  LET w1 == pushUnit([w EXCEPT !.selectedUnit = unit], unit)
      r == showUnitDetailBegin(w1, unit)
  IN IF r.done THEN r.w
     ELSE Suspend(r.w, Task("click", "detail", r.dept, f, EmptyMap, unit, "click"))

\* onUnitClick up to its await
onUnitClick(w, unit, f) ==
  LET w1 == pushUnit(resetBreadcrumb([w EXCEPT !.selectedUnit = unit]), unit)
      r == showUnitDetailBegin(w1, unit)
  IN IF r.done THEN r.w
     ELSE Suspend(r.w, Task("click", "detail", r.dept, f, EmptyMap, unit, "click"))

\* mapController.flyTo; flyTarget is the zoom of the flight under way (0: none)
flyTo(m, zoom) == [m EXCEPT !.flyTarget = zoom]

\* variant: the Nation segment clears the iris set only
navigateToBreadcrumbKeepsCanton(m, target) ==
  IF target.level = "department" /\ target.code = Null
  THEN flyTo(clearIrisLayer(m), 55)
  ELSE IF target.level = "department"
  THEN flyTo(clearCantonLayer(clearIrisLayer(m)), 80)
  ELSE IF target.level = "epci"
  THEN flyTo(clearIrisLayer(m), 90)
  ELSE m


navigateToBreadcrumb(m, target) ==
  IF target.level = "department" /\ target.code = Null
  THEN flyTo(clearCantonLayer(clearIrisLayer(m)), 55)
  ELSE IF target.level = "department"
  THEN flyTo(clearCantonLayer(clearIrisLayer(m)), 80)
  ELSE IF target.level = "epci"
  THEN flyTo(clearIrisLayer(m), 90)
  ELSE m

\* variant: the element after the clicked one is kept too
truncateBreadcrumbKeepsNext(bc, idx) == SubSeq(bc, 1, idx + 2)

\* keep path elements 0..idx (breadcrumb.slice(0, idx + 1)); sequences here start at 1
truncateBreadcrumb(bc, idx) == SubSeq(bc, 1, idx + 1)

\* click on the breadcrumb segment at (0-based) index idx
breadcrumbClick(w, idx) ==
  LET target == w.breadcrumb[idx + 1]
  IN [w EXCEPT !.breadcrumb = truncateBreadcrumb(@, idx),
               !.map = navigateToBreadcrumb(@, target)]

\* the `via` of the listener run that belongs to the i-th earlier entry
OldVia == <<"old1", "old2", "old3">>

\* selectedUnit and activeLevel as the listener run t sees them: those of the
\* renderExplorer call that registered the listener
Closure(w, t) ==
  IF t.via \in Range(OldVia)
  THEN w.view.old[CHOOSE i \in DOMAIN OldVia : OldVia[i] = t.via]
  ELSE [selectedUnit |-> w.selectedUnit, activeLevel |-> w.activeLevel]

\* filter handler: the tail after the canton and iris re-queries
filterFromDetail(w, t) ==
  LET cl == Closure(w, t)
  IN IF cl.selectedUnit = NoUnit THEN updateLegend(w, cl.activeLevel)
     ELSE LET r == showUnitDetailBegin(w, cl.selectedUnit)
          IN IF r.done THEN updateLegend(r.w, cl.activeLevel)
             ELSE Suspend(r.w, [t EXCEPT !.pc = "detail", !.dept = r.dept,
                                         !.unit = cl.selectedUnit])

filterFromIris(w, t) ==
  IF w.map.loadedIrisDept # Null
  THEN Suspend(w, [t EXCEPT !.pc = "iris", !.dept = w.map.loadedIrisDept])
  ELSE filterFromDetail(w, t)

filterFromCanton(w, t) ==
  IF w.map.loadedCantonDept # Null
  THEN Suspend(w, [t EXCEPT !.pc = "canton", !.dept = w.map.loadedCantonDept])
  ELSE filterFromIris(w, t)

\* variant: the listeners do not look at mapController
filterChangedNoGuard(w, f) ==
  LET vias == {OldVia[i] : i \in 1 .. Len(w.view.old)} \cup {"filter"}
  IN [w EXCEPT !.tasks = @ (+) SetToBag({Task("filter", "ranking", Null, f, EmptyMap,
                                               NoUnit, v) : v \in vias})]

\* setFilter's listeners.forEach: every registered listener (those of earlier
\* entries first) runs up to its first await
filterChanged(w, f) ==
  IF w.view.mapController = Null THEN w
  ELSE LET vias == {OldVia[i] : i \in 1 .. Len(w.view.old)} \cup {"filter"}
       IN [w EXCEPT !.tasks = @ (+) SetToBag({Task("filter", "ranking", Null, f, EmptyMap,
                                                    NoUnit, v) : v \in vias})]

\* the listener resumed at t.pc with the outcome of the awaited queries
\* (Threw, Ok, or rows for the canton and iris re-queries)
filterResumed(w, t, outcome) ==
  IF t.pc = "ranking"
  THEN IF outcome = Threw THEN Note(w, "uncaught")
       ELSE filterFromCanton([w EXCEPT !.map = applyColors(@, Ranking("department", t.f),
                                                            Ranking("epci", t.f))], t)
  ELSE IF t.pc = "canton"
  THEN filterFromIris (IF outcome = Threw THEN w
                      ELSE [w EXCEPT !.map = updateCanton(@, Rows("canton", t.dept, t.f, outcome[2]))], t)
  ELSE IF t.pc = "iris"
  THEN filterFromDetail (IF outcome = Threw THEN w
                        ELSE [w EXCEPT !.map = updateIris(@, Rows("iris", t.dept, t.f, outcome[2]))], t)
  ELSE LET w1 == showUnitDetailEnd(w, t, outcome)
       IN updateLegend(w1, Closure(w1, t).activeLevel)

(***************************************************************************)
(* State machine                                                           *)
(***************************************************************************)
\* filters.js setFilter for the keys ageMin and ageMax: nothing when the value
\* is the current one, else the value is stored and every listener receives
\* getFilters()
setFilter(s, key, value) ==
  IF s[key] = value THEN s
  ELSE LET s1 == [s EXCEPT ![key] = value]
       IN [s1 EXCEPT !.delivered = Append(@, <<s1.ageMin, s1.ageMax>>)]

Min2(a, b) == IF a <= b THEN a ELSE b
Max2(a, b) == IF a >= b THEN a ELSE b

\* the "change" handler of the select #filter-age-min
ageMinChange(s, value) ==
  LET lo == value
      hi == s.ageMax
  IN setFilter(setFilter(s, "ageMin", Min2(lo, hi)), "ageMax", Max2(lo, hi))

\* the "change" handler of the select #filter-age-max
ageMaxChange(s, value) ==
  LET hi == value
      lo == s.ageMin
  IN setFilter(setFilter(s, "ageMin", Min2(lo, hi)), "ageMax", Max2(lo, hi))

\* explorer.js handleAgeClick
handleAgeClick(s, lo, hi) == setFilter(setFilter(s, "ageMin", lo), "ageMax", hi)

\* renderFilters: the age filter starts as the whole range of the data
InitAges == [ageMin |-> 0, ageMax |-> MaxAge, delivered |-> <<>>]

EpciCodes == {"E1"}
\* canton and iris codes are unique only inside their department
CantonCodes == {"01"}
IrisCodes == {"0101"}
Unit(level, code) == [level |-> level, code |-> code]

BaseLayers ==
  <<"road-minor", "road-label", "dept-fill", "dept-outline", "epci-fill", "epci-outline",
    "place-city", "place-town", "place-village">>

\* createExplorerMap, then the map's "load" handler (applyColors)
BlankMap ==
  [zoom |-> FRANCE_ZOOM, flyTarget |-> 0, layers |-> BaseLayers,
   deptPopMap |-> EmptyMap, epciPopMap |-> EmptyMap,
   cantonPopMap |-> EmptyMap, irisPopMap |-> EmptyMap,
   deptColorScale |-> NoScale, epciColorScale |-> NoScale,
   cantonColorScale |-> NoScale, irisColorScale |-> NoScale,
   loadedCantonDept |-> Null, cantonCodeKey |-> Null, cantonLoadingDept |-> Null,
   loadedIrisDept |-> Null, irisCodeKey |-> Null, irisLoadingDept |-> Null,
   centerDeptCode |-> Null, cantonSource |-> Null, irisSource |-> Null,
   countHandlers |-> FALSE, cantonClickHandlers |-> 0, irisClickHandlers |-> 0]

\* the controller once the map's "load" handler has colored the department and
\* EPCI layers with the rankings queried under filter f
LoadedMap(f) == applyColors(BlankMap, Ranking("department", f), Ranking("epci", f))

InitMap == LoadedMap("all")

\* the page-level state after a first entry whose map was created; orphans is
\* the number of maps that were created, are not mapController and were never
\* destroyed
InitView == [mapController |-> "controller", mapPanel |-> "map", old |-> <<>>, orphans |-> 0]

\* renderExplorer called again (from its cleanup to the new map's "load"
\* event); `created` tells whether createExplorerMap returned or threw.
\* onFilterChange returns nothing, so unsubscribeFilters stays undefined and
\* the listener of the entry that ends stays registered with its closure.
renderExplorer(w, f, created) ==
  [w EXCEPT !.view = [mapController |-> IF created THEN "controller" ELSE Null,
                      mapPanel |-> IF created THEN "map" ELSE "error",
                      old |-> Append(@.old, [selectedUnit |-> w.selectedUnit,
                                             activeLevel |-> w.activeLevel]),
                      orphans |-> @.orphans],
            !.map = IF created THEN LoadedMap(f) ELSE BlankMap,
            !.breadcrumb = <<NationRoot>>,
            !.selectedUnit = NoUnit,
            !.activeLevel = "department",
            !.info = <<"welcome">>,
            !.legend = NoScale]

\* renderExplorer from its cleanup to the await of the two ranking queries:
\* the current controller, if any, is destroyed
renderExplorerBegin(w, f) ==
  Suspend([w EXCEPT !.view.mapController = Null,
                    !.view.mapPanel = "loading",
                    !.breadcrumb = <<NationRoot>>],
          Task("render", "queries", Null, f, EmptyMap, NoUnit, "render"))

\* renderExplorer from the answer of the ranking queries to the new map's
\* "load" event.  mapController is assigned without a look at its value: a
\* controller that another call created in the meantime is left undestroyed;
\* when createExplorerMap throws, mapController keeps the value it had.
renderExplorerEnd(w, t, outcome, created) ==
  IF outcome = Threw THEN Note(w, "uncaught")
  ELSE LET w1 == renderExplorer(w, t.f, created)
       IN IF w.view.mapController = Null THEN w1
          ELSE IF created THEN [w1 EXCEPT !.view.orphans = @ + 1]
          ELSE [w1 EXCEPT !.view.mapController = w.view.mapController, !.map = w.map]

\* renderExplorer: resetBreadcrumb, the welcome panel, activeLevel, selectedUnit;
\* updateLegend("department") ran before the "load" event, when no scale existed
Init ==
  /\ map = InitMap
  /\ breadcrumb = <<NationRoot>>
  /\ selectedUnit = NoUnit
  /\ activeLevel = "department"
  /\ info = <<"welcome">>
  /\ legend = NoScale
  /\ filterState = "all"
  /\ ageFilter = InitAges
  /\ tasks = EmptyBag
  /\ view = InitView
  /\ lastOp = [op |-> "init", arg |-> 0, did |-> {}]

World ==
  [map |-> map, breadcrumb |-> breadcrumb, selectedUnit |-> selectedUnit,
   activeLevel |-> activeLevel, info |-> info, legend |-> legend, tasks |-> tasks,
   view |-> view, did |-> {}]

\* the world once the suspended handler t has been taken up again
Resumed(t) == [World EXCEPT !.tasks = @ (-) SetToBag({t})]

\* lastOp: the handler that ran (arg: the index of a clicked breadcrumb
\* segment), and the log of what the run did
Commit(w, op, arg) ==
  /\ map' = w.map
  /\ breadcrumb' = w.breadcrumb
  /\ selectedUnit' = w.selectedUnit
  /\ activeLevel' = w.activeLevel
  /\ info' = w.info
  /\ legend' = w.legend
  /\ tasks' = w.tasks
  /\ view' = w.view
  /\ lastOp' = [op |-> op, arg |-> arg, did |-> w.did]

\* number of suspended handlers of the kinds K
Pending(b, K) ==
  LET S == {t \in BagToSet(b) : t.kind \in K}
  IN BagCardinality([t \in S |-> b[t]])

Waiting(kind, pc) == {t \in BagToSet(tasks) : t.kind = kind /\ t.pc = pc}

\* a settle event at zoom z with department c (or none) under the center
MoveendStep(z, c) ==
  /\ view.mapController # Null
  /\ Commit(moveend(World, z, c, filterState), "moveend", 0)
  /\ UNCHANGED <<filterState, ageFilter>>

\* settle events at the zooms `zooms`, while they leave at most `cap` load
\* handlers suspended
Settle(cap, zooms) ==
  \E z \in zooms, c \in Depts \cup {Null} :
    /\ Pending(moveend(World, z, c, filterState).tasks, {"canton", "iris"}) <= cap
    /\ MoveendStep(z, c)

Moveend == Settle(MaxLoads, Zooms)

CantonDataStep(t, o) ==
  /\ Commit(cantonData(Resumed(t), t, o), "cantonData", 0)
  /\ UNCHANGED <<filterState, ageFilter>>

CantonData ==
  \E t \in Waiting("canton", "data"), o \in {NoView, Threw} \cup RowOutcomes :
    CantonDataStep(t, o)

CantonFetchedStep(t, o) ==
  /\ Commit(cantonFetched(Resumed(t), t, o), "cantonFetched", 0)
  /\ UNCHANGED <<filterState, ageFilter>>

CantonFetched ==
  \E t \in Waiting("canton", "fetch"), o \in FetchOutcomes :
    CantonFetchedStep(t, o)

IrisDataStep(t, o) ==
  /\ Commit(irisData(Resumed(t), t, o), "irisData", 0)
  /\ UNCHANGED <<filterState, ageFilter>>

IrisData ==
  \E t \in Waiting("iris", "data"), o \in {NoView, Threw} \cup IrisRowOutcomes :
    IrisDataStep(t, o)

IrisFetchedStep(t, o) ==
  /\ Commit(irisFetched(Resumed(t), t, o), "irisFetched", 0)
  /\ UNCHANGED <<filterState, ageFilter>>

IrisFetched ==
  \E t \in Waiting("iris", "fetch"), o \in FetchOutcomes :
    IrisFetchedStep(t, o)

\* a click delivered to one click handler of setupInteractions,
\* setupCantonInteractions or setupIrisInteractions
UnitClick(unit) ==
  /\ view.mapController # Null
  /\ Pending(tasks, {"click"}) < MaxDetail
  /\ Commit(onUnitClick(World, unit, filterState), "unitClick", 0)
  /\ UNCHANGED <<filterState, ageFilter>>

DeptClick ==
  \E code \in Depts :
    /\ ~(map.zoom > DEPT_FADE_OUT)
    /\ UnitClick(Unit("department", code))

EpciClick ==
  \E code \in EpciCodes :
    /\ ~(map.zoom < EPCI_FADE_IN)
    /\ ~(map.zoom > EPCI_FADE_OUT)
    /\ UnitClick(Unit("epci", code))

CantonClick ==
  \E code \in CantonCodes :
    /\ hasLayer(map, "canton-fill")
    /\ map.cantonCodeKey # Null
    /\ UnitClick(Unit("canton", code))

IrisClick ==
  \E code \in IrisCodes :
    /\ hasLayer(map, "iris-fill")
    /\ map.irisCodeKey # Null
    /\ UnitClick(Unit("iris", code))

ClickDetail ==
  \E t \in Waiting("click", "detail"), o \in {Ok, Threw} :
    /\ Commit(showUnitDetailEnd(Resumed(t), t, o), "clickDetail", 0)
    /\ UNCHANGED <<filterState, ageFilter>>

\* renderBreadcrumb gives a click handler to every segment but the last
BreadcrumbClick ==
  \E idx \in 0 .. (Len(breadcrumb) - 2) :
    /\ Commit(breadcrumbClick(World, idx), "breadcrumbClick", idx)
    /\ UNCHANGED <<filterState, ageFilter>>

\* setFilter("sex", v) and the explorer's listener up to its first await
SetFilter ==
  \E v \in SexValues :
    /\ filterState # v
    /\ Pending(tasks, {"filter"}) < MaxRefresh
    /\ filterState' = v
    /\ UNCHANGED ageFilter
    /\ Commit(filterChanged(World, v), "setFilter", 0)

\* the view is entered again, while no handler is suspended
RenderExplorer ==
  \E created \in BOOLEAN :
    /\ tasks = EmptyBag
    /\ Len(view.old) < MaxReentry
    /\ Commit(renderExplorer(World, filterState, created), "renderExplorer", 0)
    /\ UNCHANGED <<filterState, ageFilter>>

\* the view is entered, possibly while earlier entries still await their
\* ranking queries
RenderBegin ==
  /\ Len(view.old) + Pending(tasks, {"render"}) < MaxOverlap
  /\ Pending(tasks, {"click", "filter"}) = 0
  /\ Commit(renderExplorerBegin(World, filterState), "renderBegin", 0)
  /\ UNCHANGED <<filterState, ageFilter>>

RenderEnd ==
  \E t \in Waiting("render", "queries"), o \in {Ok, Threw}, created \in BOOLEAN :
    /\ (o = Threw) => created
    /\ Commit(renderExplorerEnd(Resumed(t), t, o, created), "renderEnd", 0)
    /\ UNCHANGED <<filterState, ageFilter>>

\* the explorer's listeners run once for each delivered snapshot
RECURSIVE Notify(_, _, _)
Notify(w, f, n) == IF n = 0 THEN w ELSE Notify(filterChanged(w, f), f, n - 1)

\* a change of the age filter that leaves the store as s
AgeChange(s, op) ==
  /\ Pending(tasks, {"filter"}) < MaxRefresh
  /\ ageFilter' = s
  /\ Commit(Notify(World, filterState, Len(s.delivered)), op, 0)
  /\ UNCHANGED filterState

AgeMinSelect ==
  \E a \in 0 .. MaxAge :
    AgeChange(ageMinChange([ageFilter EXCEPT !.delivered = <<>>], a), "ageMinSelect")

AgeMaxSelect ==
  \E a \in 0 .. MaxAge :
    AgeChange(ageMaxChange([ageFilter EXCEPT !.delivered = <<>>], a), "ageMaxSelect")

\* a click on a bar of the age chart (one bar for each age) or on its reset
\* link; the chart is in the sidebar when a unit detail is shown
AgeClick ==
  \E r \in {<<a, a>> : a \in 0 .. MaxAge} \cup {<<0, MaxAge>>} :
    /\ info[1] = "detail"
    /\ AgeChange(handleAgeClick([ageFilter EXCEPT !.delivered = <<>>], r[1], r[2]), "ageClick")

FilterResumeStep(t, o) ==
  /\ Commit(filterResumed(Resumed(t), t, o), "filterResume", 0)
  /\ UNCHANGED <<filterState, ageFilter>>

FilterResume ==
  \E t \in {x \in BagToSet(tasks) : x.kind = "filter"} :
  \E o \in IF t.pc = "canton" THEN {Threw} \cup RefreshRowOutcomes
          ELSE IF t.pc = "iris" THEN {Threw} \cup IrisRowOutcomes
          ELSE {Ok, Threw} :
    FilterResumeStep(t, o)

\* one click on the map at a point inside department d, with the EPCI feature e
\* (or none) under it.  MapLibre calls every layer-scoped click handler whose
\* layer has a feature under the point: those of dept-fill and epci-fill in
\* their order of registration, then those of the canton and iris layers,
\* whose order is the order of the installs (irisFirst); a layer with two or
\* more handlers registered has its handler run twice.  The run of each
\* onUnitClick is logged with its level.
mapClick(w, d, e, irisFirst, f) ==
  LET z == w.map.zoom
      dept(x) == IF ~(z > DEPT_FADE_OUT)
                 THEN Note(onUnitClick(x, Unit("department", d), f), "department") ELSE x
      epci(x) == IF e # Null /\ ~(z < EPCI_FADE_IN \/ z > EPCI_FADE_OUT)
                 THEN Note(onUnitClick(x, Unit("epci", e), f), "epci") ELSE x
      cantonOnce(x, note) ==
        Note(onUnitClick(x, Unit("canton", CHOOSE c \in CantonCodes : TRUE), f), note)
      canton(x) == IF /\ hasLayer(x.map, "canton-fill") /\ x.map.cantonSource = d
                      /\ x.map.cantonCodeKey # Null
                   THEN IF x.map.cantonClickHandlers >= 2
                        THEN cantonOnce(cantonOnce(x, "canton"), "cantonAgain")
                        ELSE cantonOnce(x, "canton")
                   ELSE x
      irisOnce(x, note) ==
        Note(onUnitClick(x, Unit("iris", CHOOSE c \in IrisCodes : TRUE), f), note)
      iris(x) == IF /\ hasLayer(x.map, "iris-fill") /\ x.map.irisSource = d
                    /\ x.map.irisCodeKey # Null
                 THEN IF x.map.irisClickHandlers >= 2
                      THEN irisOnce(irisOnce(x, "iris"), "irisAgain")
                      ELSE irisOnce(x, "iris")
                 ELSE x
      w2 == epci(dept(w))
  IN IF irisFirst THEN canton(iris(w2)) ELSE iris(canton(w2))

MapClick ==
  \E d \in Depts, e \in EpciCodes \cup {Null}, irisFirst \in BOOLEAN :
    /\ view.mapController # Null
    /\ Pending(tasks, {"click"}) < MaxDetail
    /\ Commit(mapClick(World, d, e, irisFirst, filterState), "mapClick", 0)
    /\ UNCHANGED <<filterState, ageFilter>>

Next ==
  \/ Moveend
  \/ CantonData
  \/ CantonFetched
  \/ IrisData
  \/ IrisFetched
  \/ DeptClick
  \/ EpciClick
  \/ CantonClick
  \/ IrisClick
  \/ ClickDetail
  \/ BreadcrumbClick
  \/ SetFilter
  \/ FilterResume
  \/ RenderExplorer
  \/ MapClick
  \/ RenderBegin
  \/ RenderEnd
  \/ AgeMinSelect
  \/ AgeMaxSelect
  \/ AgeClick

Spec == Init /\ [][Next]_vars

(***************************************************************************)
(* Restricted environments.  The filter-change handler writes only the     *)
(* population maps, the color scales, info, legend and its own task; the   *)
(* unit-click and breadcrumb handlers write only breadcrumb, selectedUnit, *)
(* info and (breadcrumb) the sub-level sets.                               *)
(***************************************************************************)
\* the user pans and zooms; loads complete in any order
NextLoad ==
  \/ Moveend
  \/ CantonData
  \/ CantonFetched
  \/ IrisData
  \/ IrisFetched

SpecLoad == Init /\ [][NextLoad]_vars

MoveendNav == Settle(MaxNavLoads, NavZooms)

\* ... and clicks units and breadcrumb segments
NextNav ==
  \/ MoveendNav
  \/ CantonData
  \/ CantonFetched
  \/ IrisData
  \/ IrisFetched
  \/ DeptClick
  \/ EpciClick
  \/ CantonClick
  \/ IrisClick
  \/ ClickDetail
  \/ BreadcrumbClick

SpecNav == Init /\ [][NextNav]_vars

\* navigateToBreadcrumb applied to an EPCI target.  The paths onUnitClick builds
\* end with their EPCI segment, which renderBreadcrumb leaves without a click
\* handler, so the page itself never makes this call.
NavigateEpci ==
  \E code \in EpciCodes :
    LET target == Unit("epci", code)
    IN /\ Commit([World EXCEPT !.map = navigateToBreadcrumb(@, target)], "navigate", 0)
       /\ UNCHANGED <<filterState, ageFilter>>

\* zooms at which the canton and the iris set load
LoadZooms == {90, 110}

MoveendLoad == Settle(MaxNavLoads, LoadZooms)

\* zoom at which the canton set loads
CantonZooms == {90}

MoveendCanton == Settle(MaxNavLoads, CantonZooms)

\* the user looks at cantons and changes the sex filter
NextFilter ==
  \/ MoveendCanton
  \/ CantonData
  \/ CantonFetched
  \/ IrisData
  \/ IrisFetched
  \/ SetFilter
  \/ FilterResume

SpecFilter == Init /\ [][NextFilter]_vars

\* the user clicks departments and changes the sex filter
NextDetail ==
  \/ DeptClick
  \/ ClickDetail
  \/ SetFilter
  \/ FilterResume

SpecDetail == Init /\ [][NextDetail]_vars

\* the user clicks departments, changes the sex filter and enters the view again
NextReentry ==
  \/ DeptClick
  \/ ClickDetail
  \/ SetFilter
  \/ FilterResume
  \/ RenderExplorer

SpecReentry == Init /\ [][NextReentry]_vars

\* the view settles over departments at the load zooms, one load at a time
NextResident ==
  \/ MoveendLoad
  \/ CantonData
  \/ CantonFetched
  \/ IrisData
  \/ IrisFetched

SpecResident == Init /\ [][NextResident]_vars

\* zooms at the edges of and inside the two bands between an evict threshold
\* and its load threshold, and one zoom below both bands
BandZooms == {75, 80, 89, 90, 100, 109, 110}

MoveendBand == Settle(MaxNavLoads, BandZooms)

\* the view settles at zooms around the hysteresis bands, one load at a time
NextBand ==
  \/ MoveendBand
  \/ CantonData
  \/ CantonFetched
  \/ IrisData
  \/ IrisFetched

SpecBand == Init /\ [][NextBand]_vars

\* zooms below, inside and above the band where the department and the EPCI
\* layers are both shown
ClickZooms == {55, 70, 90}

MoveendClick == Settle(MaxNavLoads, ClickZooms)

\* the view settles and the user clicks on the map
NextClick ==
  \/ MoveendClick
  \/ CantonData
  \/ CantonFetched
  \/ IrisData
  \/ IrisFetched
  \/ MapClick
  \/ ClickDetail

SpecClick == Init /\ [][NextClick]_vars

\* the user looks at cantons, selects one and changes the sex filter
NextSelect ==
  \/ MoveendCanton
  \/ CantonData
  \/ CantonFetched
  \/ IrisData
  \/ IrisFetched
  \/ CantonClick
  \/ ClickDetail
  \/ SetFilter
  \/ FilterResume

SpecSelect == Init /\ [][NextSelect]_vars

\* setFilter("sex", v) while earlier filter-change handlers are still suspended
SetFilterOverlap ==
  \E v \in SexValues :
    /\ filterState # v
    /\ Pending(tasks, {"filter"}) < MaxOverlap
    /\ filterState' = v
    /\ UNCHANGED ageFilter
    /\ Commit(filterChanged(World, v), "setFilter", 0)

\* a filter-change handler resumes with the result of its queries
FilterDone ==
  \E t \in {x \in BagToSet(tasks) : x.kind = "filter"} : FilterResumeStep(t, Ok)

\* the user clicks departments and changes the sex filter again before the
\* earlier change has been handled; every query of the filter handler answers
NextOverlap ==
  \/ DeptClick
  \/ ClickDetail
  \/ SetFilterOverlap
  \/ FilterDone

SpecOverlap == Init /\ [][NextOverlap]_vars

\* zooms in [9, 10): at or above the canton load threshold, below the iris band
FallbackZooms == {90, 95}

MoveendFallback == Settle(MaxNavLoads, FallbackZooms)

\* the view settles between zoom 9 and 10 only, so that every iris load is the
\* fallback of a canton load with few cantons
NextFallback ==
  \/ MoveendFallback
  \/ CantonData
  \/ CantonFetched
  \/ IrisData
  \/ IrisFetched

SpecFallback == Init /\ [][NextFallback]_vars

\* the state after construction, with the click handlers of the canton and
\* iris layers counted
InitListeners ==
  /\ map = [InitMap EXCEPT !.countHandlers = TRUE]
  /\ breadcrumb = <<NationRoot>>
  /\ selectedUnit = NoUnit
  /\ activeLevel = "department"
  /\ info = <<"welcome">>
  /\ legend = NoScale
  /\ filterState = "all"
  /\ ageFilter = InitAges
  /\ tasks = EmptyBag
  /\ view = InitView
  /\ lastOp = [op |-> "init", arg |-> 0, did |-> {}]

\* a zoom that evicts the canton and iris sets and one that loads the canton set
CycleZooms == {75, 90}

MoveendCycle == Settle(MaxNavLoads, CycleZooms)

\* sub-level sets are installed and evicted in turn, and the user clicks on the map
NextListeners ==
  \/ MoveendCycle
  \/ CantonData
  \/ CantonFetched
  \/ IrisData
  \/ IrisFetched
  \/ MapClick
  \/ ClickDetail

SpecListeners == InitListeners /\ [][NextListeners]_vars

\* zooms at which the department and the EPCI layers take clicks and nothing
\* is loaded
OverviewZooms == {55, 70}

MoveendOverview == Settle(MaxNavLoads, OverviewZooms)

\* a click delivered to a click handler while the detail queries of earlier
\* clicks are still awaited
UnitClickOverlap(unit) ==
  /\ view.mapController # Null
  /\ Pending(tasks, {"click"}) < MaxOverlap
  /\ Commit(onUnitClick(World, unit, filterState), "unitClick", 0)
  /\ UNCHANGED <<filterState, ageFilter>>

DeptClickOverlap ==
  \E code \in Depts :
    /\ ~(map.zoom > DEPT_FADE_OUT)
    /\ UnitClickOverlap(Unit("department", code))

EpciClickOverlap ==
  \E code \in EpciCodes :
    /\ ~(map.zoom < EPCI_FADE_IN)
    /\ ~(map.zoom > EPCI_FADE_OUT)
    /\ UnitClickOverlap(Unit("epci", code))

\* the user clicks units in quick succession; the detail queries complete in
\* any order
NextSuccession ==
  \/ MoveendOverview
  \/ DeptClickOverlap
  \/ EpciClickOverlap
  \/ ClickDetail

SpecSuccession == Init /\ [][NextSuccession]_vars

\* the view is entered again and again, the user clicks departments and
\* changes the sex filter
NextEntry ==
  \/ RenderBegin
  \/ RenderEnd
  \/ DeptClick
  \/ ClickDetail
  \/ SetFilter
  \/ FilterResume

SpecEntry == Init /\ [][NextEntry]_vars

\* the user clicks departments and changes the age filter, by the selects of
\* the filter bar and by the age chart of the sidebar
NextAge ==
  \/ DeptClick
  \/ ClickDetail
  \/ AgeMinSelect
  \/ AgeMaxSelect
  \/ AgeClick
  \/ FilterResume

SpecAge == Init /\ [][NextAge]_vars

NextNavigate ==
  \/ MoveendLoad
  \/ CantonData
  \/ CantonFetched
  \/ IrisData
  \/ IrisFetched
  \/ CantonClick
  \/ IrisClick
  \/ ClickDetail
  \/ BreadcrumbClick
  \/ NavigateEpci

SpecNavigate == Init /\ [][NextNavigate]_vars

(***************************************************************************)
(* Resident sets                                                           *)
(***************************************************************************)
\* the parts of the canton set: owner, source, layers, population map, scale
CantonSet(m) ==
  [owner |-> m.loadedCantonDept, source |-> m.cantonSource,
   fill |-> hasLayer(m, "canton-fill"), outline |-> hasLayer(m, "canton-outline"),
   pop |-> m.cantonPopMap, scale |-> m.cantonColorScale]

IrisSet(m) ==
  [owner |-> m.loadedIrisDept, source |-> m.irisSource,
   fill |-> hasLayer(m, "iris-fill"), outline |-> hasLayer(m, "iris-outline"),
   pop |-> m.irisPopMap, scale |-> m.irisColorScale]

NothingResident(set) ==
  /\ set.owner = Null
  /\ set.source = Null
  /\ ~set.fill
  /\ ~set.outline
  /\ set.pop = EmptyMap
  /\ set.scale = NoScale

OneOwner(set) ==
  /\ set.owner \in Depts
  /\ set.source = set.owner
  /\ set.fill
  /\ set.outline
  /\ set.pop.dept = set.owner
  /\ set.scale.dept = set.owner

\* a load of `kind` for the department under the center is pending, the view
\* stands at or above the load threshold, and t loads another department
Superseded(t, kind, threshold) ==
  /\ map.zoom >= threshold
  /\ map.centerDeptCode \notin {Null, t.dept}
  /\ \E u \in BagToSet(tasks) : u.kind = kind /\ u.dept = map.centerDeptCode

\* loads in progress: a canton handler that fell back to iris is still running
CantonLoads == {t \in BagToSet(tasks) : t.kind = "canton" \/ t.via = "canton"}
IrisLoads == {t \in BagToSet(tasks) : t.kind = "iris"}
Copies(S) == BagCardinality([t \in S |-> tasks[t]])

(***************************************************************************)
(* Claims                                                                  *)
(***************************************************************************)
\* C1 (as claimed): the boundary response of a load for department A that
\* arrives while the center is over another department B, at or above the load
\* threshold, with B's load pending, is discarded: after it A is not the
\* resident owner and nothing of A is installed.  For canton and for iris.
C1_StaleResponseDiscarded ==
  [][ /\ \A t \in Waiting("canton", "fetch"), o \in FetchOutcomes :
           (Superseded(t, "canton", CANTON_ZOOM_THRESHOLD) /\ CantonFetchedStep(t, o))
             => /\ map'.loadedCantonDept # t.dept
                /\ map'.cantonSource # t.dept
                /\ map'.cantonPopMap.dept # t.dept
                /\ map'.cantonColorScale.dept # t.dept
      /\ \A t \in Waiting("iris", "fetch"), o \in FetchOutcomes :
           (Superseded(t, "iris", IRIS_ZOOM_THRESHOLD) /\ IrisFetchedStep(t, o))
             => /\ map'.loadedIrisDept # t.dept
                /\ map'.irisSource # t.dept
                /\ map'.irisPopMap.dept # t.dept
                /\ map'.irisColorScale.dept # t.dept ]_vars

\* C2 (as claimed): at most one canton load and at most one iris load is in
\* progress at any time.
C2_OneLoadPerSubLevel ==
  /\ Copies(CantonLoads) <= 1
  /\ Copies(IrisLoads) <= 1

\* C3 (as claimed): for canton and for iris, either nothing is resident or
\* geometry, population map, color scale and owner belong to one department.
C3_ResidentSetWhole ==
  /\ NothingResident(CantonSet(map)) \/ OneOwner(CantonSet(map))
  /\ NothingResident(IrisSet(map)) \/ OneOwner(IrisSet(map))

\* the last step was a settle event ("moveend") at a zoom in [lo, hi)
SettledIn(lo, hi) == lastOp.op = "moveend" /\ map.zoom >= lo /\ map.zoom < hi

CantonResidentForCenter ==
  map.loadedCantonDept # Null /\ map.loadedCantonDept = map.centerDeptCode

\* C4: after a settle event at zoom z the active level is department for
\* z < 7.5, epci for 7.5 <= z < 9, and canton for 9 <= z < 11 when a canton set
\* is resident for the center department.
C4_LevelAfterSettle ==
  /\ SettledIn(0, 75) => activeLevel = "department"
  /\ SettledIn(75, 90) => activeLevel = "epci"
  /\ (SettledIn(90, 110) /\ CantonResidentForCenter) => activeLevel = "canton"

C4_Witness ==
  /\ SettledIn(90, 110)
  /\ map.centerDeptCode = "75"
  /\ map.loadedCantonDept = "75"
  /\ activeLevel = "canton"

C6_FewCantonsSkipToIris ==
  [][ \A t \in Waiting("canton", "data"), o \in RowOutcomes :
        (Len(o[2]) <= 2 /\ CantonDataStep(t, o))
          => /\ CantonSet(map') = CantonSet(map)
             /\ \E u \in BagToSet(tasks') :
                  /\ u.kind = "iris" /\ u.pc = "data" /\ u.dept = t.dept
                  /\ tasks'[u] > (IF u \in BagToSet(tasks) THEN tasks[u] ELSE 0) ]_vars

C6_Witness ==
  /\ lastOp.op = "cantonData"
  /\ "fewCantons" \in lastOp.did
  /\ \E u \in BagToSet(tasks) : u.kind = "iris" /\ u.pc = "data" /\ u.via = "canton"

\* C7: after a settle event at zoom < 8 no canton set is resident (no layers,
\* no source, empty population map, no scale, no owner), and after a settle
\* event at zoom < 10 no iris set is resident.
C7_EvictedAfterSettle ==
  /\ SettledIn(0, CANTON_ZOOM_OUT) => NothingResident(CantonSet(map))
  /\ SettledIn(0, IRIS_ZOOM_THRESHOLD - 10) => NothingResident(IrisSet(map))

C7_Witness ==
  /\ SettledIn(0, CANTON_ZOOM_OUT)
  /\ "cantonEvict" \in lastOp.did
  /\ NothingResident(CantonSet(map))

\* C8: element 0 of the breadcrumb path is always the nation root, and a click
\* on the non-terminal segment at index i leaves exactly the former elements
\* 0..i, in order.
C8_BreadcrumbRootAndTruncation ==
  /\ [](Len(breadcrumb) >= 1 /\ breadcrumb[1] = NationRoot)
  /\ [][lastOp'.op = "breadcrumbClick"
          => breadcrumb' = [i \in 1 .. (lastOp'.arg + 1) |-> breadcrumb[i]]]_vars

C8_Witness ==
  /\ lastOp.op = "breadcrumbClick"
  /\ lastOp.arg = 1
  /\ Len(breadcrumb) = 2
  /\ breadcrumb[2].level = "department"
  /\ breadcrumb[2].code \in Depts

\* C9: after a unit click the breadcrumb is [Nation, Department(owner), Unit]
\* for a canton or iris unit, owner being the department that owns the
\* resident set of that sub-level, and [Nation, Unit] for a department or epci
\* unit, whatever the path was before.
C9_UnitClickRebuildsPath ==
  lastOp.op = "unitClick" =>
    LET owner == IF selectedUnit.level = "canton" THEN map.loadedCantonDept
                 ELSE map.loadedIrisDept
    IN IF selectedUnit.level \in {"canton", "iris"}
       THEN /\ owner \in Depts
            /\ breadcrumb = <<NationRoot, Unit("department", owner), selectedUnit>>
       ELSE breadcrumb = <<NationRoot, selectedUnit>>

C9_Witness ==
  /\ lastOp.op = "unitClick"
  /\ selectedUnit.level = "canton"
  /\ map.loadedCantonDept = "75"
  /\ breadcrumb = <<NationRoot, Unit("department", "75"), selectedUnit>>

BothEvicted(m) == NothingResident(CantonSet(m)) /\ NothingResident(IrisSet(m))

\* C10: a click on the Nation segment evicts the canton and the iris set and
\* flies to the national zoom; a click on a department segment evicts both and
\* flies to the department zoom; navigating to an EPCI segment evicts the iris
\* set only and leaves the canton set as it was.
C10_SegmentNavigation ==
  [][ /\ lastOp'.op = "breadcrumbClick" =>
           LET target == breadcrumb[lastOp'.arg + 1]
           IN /\ target = NationRoot
                   => BothEvicted(map') /\ map'.flyTarget = FRANCE_ZOOM
              /\ (target.level = "department" /\ target.code # Null)
                   => BothEvicted(map') /\ map'.flyTarget = DEPT_FADE_OUT
      /\ lastOp'.op = "navigate" =>
           /\ NothingResident(IrisSet(map'))
           /\ CantonSet(map') = CantonSet(map) ]_vars

C10_Witness ==
  /\ lastOp.op = "navigate"
  /\ OneOwner(CantonSet(map))
  /\ NothingResident(IrisSet(map))

\* outcomes of the boundary fetch that end a load without a set
FetchFailures == FetchOutcomes \ {"ok"}

\* C14 (as claimed): a canton or iris load that ends because the boundary
\* asset is missing, is not JSON, fails to download or has no features leaves
\* nothing of that sub-level (no layers, no source, empty population map, no
\* scale, no owner, no code key, no in-flight marker), and nothing is thrown
\* to the caller.
C14_FailedLoadLeavesNothing ==
  [][ /\ \A t \in Waiting("canton", "fetch"), o \in FetchFailures :
           CantonFetchedStep(t, o)
             => /\ NothingResident(CantonSet(map'))
                /\ map'.cantonCodeKey = Null
                /\ map'.cantonLoadingDept = Null
                /\ "cantonThrew" \notin lastOp'.did
      /\ \A t \in Waiting("iris", "fetch"), o \in FetchFailures :
           IrisFetchedStep(t, o)
             => /\ NothingResident(IrisSet(map'))
                /\ map'.irisCodeKey = Null
                /\ map'.irisLoadingDept = Null
                /\ "irisThrew" \notin lastOp'.did ]_vars

\* C15 (as claimed): when the data view of department D is missing, or its
\* boundary asset is missing or has no features, the handler ends with the
\* data-unavailable message for D in the sidebar, and leaves the active level
\* and the legend as they were.
C15_UnavailableMessage ==
  [][ /\ \A t \in Waiting("canton", "data") :
           CantonDataStep(t, NoView)
             => /\ info' = <<"unavailable", "canton", t.dept>>
                /\ activeLevel' = activeLevel /\ legend' = legend
      /\ \A t \in Waiting("canton", "fetch"), o \in {"notok", "empty"} :
           CantonFetchedStep(t, o)
             => /\ info' = <<"unavailable", "canton", t.dept>>
                /\ activeLevel' = activeLevel /\ legend' = legend
      /\ \A t \in Waiting("iris", "data") :
           IrisDataStep(t, NoView)
             => /\ info' = <<"unavailable", "iris", t.dept>>
                /\ activeLevel' = activeLevel /\ legend' = legend
      /\ \A t \in Waiting("iris", "fetch"), o \in {"notok", "empty"} :
           IrisFetchedStep(t, o)
             => /\ info' = <<"unavailable", "iris", t.dept>>
                /\ activeLevel' = activeLevel /\ legend' = legend ]_vars

\* C19: a load request for the department that already owns the resident set
\* of the sub-level fetches nothing (the handler ends, no handler is left
\* suspended for it) and leaves the set as it was.
C19_ResidentRequestIsNoop ==
  [][ /\ \A t \in Waiting("canton", "data"), o \in RowOutcomes :
           (Len(o[2]) > 2 /\ map.loadedCantonDept = t.dept /\ CantonDataStep(t, o))
             => /\ CantonSet(map') = CantonSet(map)
                /\ tasks' = tasks (-) SetToBag({t})
      /\ \A t \in Waiting("iris", "data"), o \in IrisRowOutcomes :
           (map.loadedIrisDept = t.dept /\ IrisDataStep(t, o))
             => /\ IrisSet(map') = IrisSet(map)
                /\ tasks' = tasks (-) SetToBag({t}) ]_vars

C19_Witness ==
  /\ lastOp.op = "cantonData"
  /\ "cantonResident" \in lastOp.did
  /\ OneOwner(CantonSet(map))

\* zooms 4.0, 4.1, ..., 16.0
ZoomGrid == 40 .. 160

Specificity(level) ==
  CASE level = "department" -> 0
    [] level = "epci" -> 1
    [] level = "canton" -> 2
    [] level = "iris" -> 3

\* the level onZoomChange gives at zoom z in the current state
ActiveLevelAt(z) == onZoomChange(World, z).activeLevel

\* C20: in every state (so for every resident-set state), for zooms z1 <= z2
\* in [4, 16] the level at z2 is at least as specific as the level at z1.
C20_LevelMonotonic ==
  LET lv == [z \in ZoomGrid |-> Specificity(ActiveLevelAt(z))]
  IN \A z1, z2 \in ZoomGrid : z1 <= z2 => lv[z1] <= lv[z2]

C20_Witness ==
  /\ OneOwner(CantonSet(map))
  /\ NothingResident(IrisSet(map))
  /\ ActiveLevelAt(40) = "department"
  /\ ActiveLevelAt(85) = "epci"
  /\ ActiveLevelAt(105) = "canton"
  /\ ActiveLevelAt(160) = "iris"

FilterRuns == {t \in BagToSet(tasks) : t.kind = "filter"}

\* the listener run t goes on after this step: it is suspended at a later await
GoesOn(t, pcs) ==
  \E u \in BagToSet(tasks') :
    u.kind = "filter" /\ u.via = t.via /\ u.f = t.f /\ u.pc \in pcs

\* C11 (as claimed): in the filter-change handler a failure of the
\* department/EPCI re-query does not keep the canton/iris re-query and the
\* sidebar re-render from running; a failure of the canton or iris re-query
\* does not keep the sidebar re-render from running and leaves the
\* department/EPCI colors applied; a failure of the sidebar re-render leaves
\* the map as it was.
C11_RefreshPathsIndependent ==
  [][ /\ \A t \in Waiting("filter", "ranking") :
           ( /\ FilterResumeStep(t, Threw)
             /\ \/ Closure(World, t).selectedUnit # NoUnit
                \/ map.loadedCantonDept # Null
                \/ map.loadedIrisDept # Null )
             => GoesOn(t, {"canton", "iris", "detail"})
      /\ \A t \in Waiting("filter", "canton") \cup Waiting("filter", "iris") :
           (FilterResumeStep(t, Threw) /\ Closure(World, t).selectedUnit # NoUnit)
             => /\ GoesOn(t, {"iris", "detail"})
                /\ map' = map
      /\ \A t \in Waiting("filter", "detail") :
           FilterResumeStep(t, Threw) => map' = map ]_vars

\* C12 (as claimed): with a unit selected, a step that renders a unit detail
\* in the sidebar and leaves no handler suspended renders the detail queried
\* with the current filter values.
C12_SidebarShowsLatestFilter ==
  [][(selectedUnit # NoUnit /\ tasks' = EmptyBag /\ info' # info /\ info'[1] = "detail")
       => info'[5] = filterState']_vars

ScaleFits(scale, pop) ==
  \/ scale = NoScale
  \/ /\ scale.lower = 0
     /\ scale.upper = Max(Range(pop.vals) \cup {1})
     /\ scale.lower < scale.upper

\* C13: in every state the color scale of each level is absent or has the
\* domain [0, max(1, maximum of the level's population map)], so that
\* 0 <= lower < upper, and upper = 1 for an empty or all-zero map.
C13_ScaleDomain ==
  /\ ScaleFits(map.deptColorScale, map.deptPopMap)
  /\ ScaleFits(map.epciColorScale, map.epciPopMap)
  /\ ScaleFits(map.cantonColorScale, map.cantonPopMap)
  /\ ScaleFits(map.irisColorScale, map.irisPopMap)

C13_Witness ==
  /\ map.cantonColorScale # NoScale
  /\ map.cantonPopMap.vals = <<>>
  /\ map.cantonColorScale.upper = 1

\* C16 (as claimed): every step in which a query or a fetch of the explorer
\* fails ends with an error message in the sidebar, and the failure does not
\* leave its handler as an uncaught rejection.
C16_FailuresCaughtAndShown ==
  [][ /\ \A t \in FilterRuns :
           FilterResumeStep(t, Threw)
             => info'[1] = "error" /\ "uncaught" \notin lastOp'.did
      /\ \A t \in Waiting("canton", "data") :
           CantonDataStep(t, Threw) => info'[1] = "error"
      /\ \A t \in Waiting("canton", "fetch") :
           CantonFetchedStep(t, "throw") => info'[1] = "error"
      /\ \A t \in Waiting("iris", "data") :
           IrisDataStep(t, Threw) => info'[1] = "error"
      /\ \A t \in Waiting("iris", "fetch") :
           IrisFetchedStep(t, "throw") => info'[1] = "error" ]_vars

C18_ReentryClearsSelection ==
  /\ [][lastOp'.op \in {"setFilter", "filterResume"} => selectedUnit' = selectedUnit]_vars
  /\ [][lastOp'.op = "renderExplorer"
          => breadcrumb' = <<NationRoot>> /\ selectedUnit' = NoUnit]_vars
  /\ [](selectedUnit = NoUnit => info[1] # "detail")


\* the last step evicted or cleared the canton (iris) sub-level
CantonJustCleared ==
  /\ "cantonEvict" \in lastOp.did \/ lastOp.op = "breadcrumbClick"
  /\ NothingResident(CantonSet(map))
  /\ map.cantonLoadingDept = Null

IrisJustCleared ==
  /\ "irisEvict" \in lastOp.did \/ lastOp.op = "breadcrumbClick"
  /\ NothingResident(IrisSet(map))
  /\ map.irisLoadingDept = Null

\* C21 (as claimed): the boundary response of a load that was in flight when
\* its sub-level was evicted (zoom-out) or cleared (breadcrumb navigation) is
\* discarded when it arrives: nothing of the sub-level is installed by it.
C21_ClearedLoadDiscarded ==
  [][ /\ \A t \in Waiting("canton", "fetch") :
           (CantonJustCleared /\ CantonFetchedStep(t, "ok"))
             => NothingResident(CantonSet(map'))
      /\ \A t \in Waiting("iris", "fetch") :
           (IrisJustCleared /\ IrisFetchedStep(t, "ok"))
             => NothingResident(IrisSet(map')) ]_vars


\* C22 (as claimed): in every state the active level is given by the zoom of
\* the most recent settle event (and the resident sets): it is the level of the
\* threshold table below zoom 9, where no resident set matters, and never more
\* specific than the level of the threshold table at any zoom; no completion
\* of a load, filter change or unit click makes it differ.
C22_LevelFromLastSettle ==
  /\ Specificity(activeLevel) <= Specificity(ActiveLevelAt(map.zoom))
  /\ map.zoom < CANTON_ZOOM_THRESHOLD => activeLevel = ActiveLevelAt(map.zoom)


\* one more handler of `kind` for department d is suspended at its first await
\* after the step than before it
Requested(kind, d) ==
  \E u \in BagToSet(tasks') :
    /\ u.kind = kind /\ u.pc = "data" /\ u.dept = d
    /\ tasks'[u] > (IF u \in BagToSet(tasks) THEN tasks[u] ELSE 0)

\* C23: a settle event at zoom z, after which the center department is D,
\* requests a canton load for D and records D as the in-flight canton target
\* exactly when z >= 9, D is known and D differs from the resident canton
\* owner and from the in-flight canton target; otherwise it requests no canton
\* load and leaves the target alone unless it evicts.  The same for iris with
\* threshold 11.
C23_LoadRequestRule ==
  [][ lastOp'.op = "moveend" =>
        LET D == map'.centerDeptCode
            z == map'.zoom
            cantonDue == /\ z >= CANTON_ZOOM_THRESHOLD /\ D # Null
                         /\ D # map.loadedCantonDept /\ D # map.cantonLoadingDept
            irisDue == /\ z >= IRIS_ZOOM_THRESHOLD /\ D # Null
                       /\ D # map.loadedIrisDept /\ D # map.irisLoadingDept
        IN /\ cantonDue <=> ("cantonLoad" \in lastOp'.did)
           /\ cantonDue => (Requested("canton", D) /\ map'.cantonLoadingDept = D)
           /\ ~cantonDue => /\ ~\E d \in Depts : Requested("canton", d)
                            /\ map'.cantonLoadingDept \in {map.cantonLoadingDept, Null}
           /\ irisDue <=> ("irisLoad" \in lastOp'.did)
           /\ irisDue => (Requested("iris", D) /\ map'.irisLoadingDept = D)
           /\ ~irisDue => /\ ~\E d \in Depts : Requested("iris", d)
                          /\ map'.irisLoadingDept \in {map.irisLoadingDept, Null} ]_vars

C23_Witness ==
  /\ lastOp.op = "moveend"
  /\ "cantonLoad" \in lastOp.did
  /\ map.zoom >= CANTON_ZOOM_THRESHOLD
  /\ map.centerDeptCode = "92"
  /\ map.cantonLoadingDept = "92"
  /\ map.loadedCantonDept = "75"


\* C24: a settle event at 8 <= zoom < 9 requests no canton load and evicts
\* nothing of the canton set (owner, source, layers, population map, scale and
\* in-flight marker are as before), and a settle event at 10 <= zoom < 11 does
\* the same for iris.
C24_HysteresisBand ==
  [][ lastOp'.op = "moveend" =>
        /\ (map'.zoom >= CANTON_ZOOM_OUT /\ map'.zoom < CANTON_ZOOM_THRESHOLD)
             => /\ CantonSet(map') = CantonSet(map)
                /\ map'.cantonLoadingDept = map.cantonLoadingDept
                /\ lastOp'.did \cap {"cantonLoad", "cantonEvict"} = {}
                /\ ~\E d \in Depts : Requested("canton", d)
        /\ (map'.zoom >= IRIS_ZOOM_THRESHOLD - 10 /\ map'.zoom < IRIS_ZOOM_THRESHOLD)
             => /\ IrisSet(map') = IrisSet(map)
                /\ map'.irisLoadingDept = map.irisLoadingDept
                /\ lastOp'.did \cap {"irisLoad", "irisEvict"} = {}
                /\ ~\E d \in Depts : Requested("iris", d) ]_vars

C24_Witness ==
  /\ SettledIn(CANTON_ZOOM_OUT + 1, CANTON_ZOOM_THRESHOLD)
  /\ OneOwner(CantonSet(map))
  /\ map.loadedCantonDept = "75"
  /\ map.centerDeptCode = "92"


\* C25 (as claimed): the rows of a canton (iris) re-query after a filter change
\* are applied only if the department that scoped the query is the resident
\* owner when they arrive; if the set was replaced or evicted meanwhile, the
\* population map and the scale of the sub-level stay as they are.
C25_RefreshScopedToOwner ==
  [][ /\ \A t \in Waiting("filter", "canton"), o \in RefreshRowOutcomes :
           (FilterResumeStep(t, o) /\ map.loadedCantonDept # t.dept)
             => /\ map'.cantonPopMap = map.cantonPopMap
                /\ map'.cantonColorScale = map.cantonColorScale
      /\ \A t \in Waiting("filter", "iris"), o \in IrisRowOutcomes :
           (FilterResumeStep(t, o) /\ map.loadedIrisDept # t.dept)
             => /\ map'.irisPopMap = map.irisPopMap
                /\ map'.irisColorScale = map.irisColorScale ]_vars


\* C26 (as claimed): after every settle event and after every install of a
\* canton or iris set the legend shows the color scale of the active level
\* when that scale exists, and never the scale of another level.
C26_LegendShowsActiveScale ==
  (lastOp.op = "moveend" \/ lastOp.did \cap {"cantonInstalled", "irisInstalled"} # {})
    => /\ legend.level \in {Null, activeLevel}
       /\ getColorScale(map, activeLevel) # NoScale
            => legend = getColorScale(map, activeLevel)


\* C27 (as claimed): one click on the map runs onUnitClick at most once, and
\* then for the level the thresholds give at the zoom of the click.
C27_OneSelectionPerClick ==
  lastOp.op = "mapClick" =>
    /\ Cardinality(lastOp.did \cap Levels) <= 1
    /\ lastOp.did \cap Levels \subseteq {ActiveLevelAt(map.zoom)}


\* the fields of the controller that belong to the canton (iris) sub-level
CantonFields ==
  {"cantonSource", "cantonPopMap", "cantonColorScale", "loadedCantonDept", "cantonCodeKey",
   "cantonLoadingDept"}
IrisFields ==
  {"irisSource", "irisPopMap", "irisColorScale", "loadedIrisDept", "irisCodeKey",
   "irisLoadingDept"}

\* m2 is m1 but for the fields F and the style layers L
SameBut(m1, m2, F, L) ==
  /\ \A k \in (DOMAIN m1) \ (F \cup {"layers"}) : m2[k] = m1[k]
  /\ m2.layers = SelectSeq(m1.layers, LAMBDA l : l \notin L)

\* the department and EPCI data
BaseData(m) == <<m.deptPopMap, m.deptColorScale, m.epciPopMap, m.epciColorScale>>

\* C28: evicting the canton set leaves no canton layers, source, population
\* map, scale, owner, code key or in-flight marker, and changes nothing else
\* of the controller (the iris set, the department and EPCI data, the center
\* department), nor the breadcrumb or the selection; symmetrically for iris.
\* Checked on the clear functions in every reachable state and on every settle
\* step that evicts.
C28_EvictionFrame ==
  /\ [](/\ SameBut(map, clearCantonLayer(map), CantonFields, {"canton-fill", "canton-outline"})
        /\ NothingResident(CantonSet(clearCantonLayer(map)))
        /\ SameBut(map, clearIrisLayer(map), IrisFields, {"iris-fill", "iris-outline"})
        /\ NothingResident(IrisSet(clearIrisLayer(map))))
  /\ [][ \A z \in BandZooms, c \in Depts \cup {Null} :
           MoveendStep(z, c) =>
             /\ "cantonEvict" \in lastOp'.did
                  => /\ NothingResident(CantonSet(map'))
                     /\ map'.cantonCodeKey = Null
                     /\ map'.cantonLoadingDept = Null
                     /\ "irisEvict" \notin lastOp'.did => IrisSet(map') = IrisSet(map)
             /\ "irisEvict" \in lastOp'.did
                  => /\ NothingResident(IrisSet(map'))
                     /\ map'.irisCodeKey = Null
                     /\ map'.irisLoadingDept = Null
                     /\ "cantonEvict" \notin lastOp'.did => CantonSet(map') = CantonSet(map)
             /\ lastOp'.did \cap {"cantonEvict", "irisEvict"} # {}
                  => /\ BaseData(map') = BaseData(map)
                     /\ map'.centerDeptCode = detectCenterDepartment(map, c).centerDeptCode
                     /\ breadcrumb' = breadcrumb
                     /\ selectedUnit' = selectedUnit ]_vars

C28_Witness ==
  /\ lastOp.op = "moveend"
  /\ lastOp.did = {"irisEvict"}
  /\ OneOwner(CantonSet(map))
  /\ NothingResident(IrisSet(map))
  /\ map.irisLoadingDept = Null


\* C29: a settle event that finds no department under the viewport center
\* leaves the center department as it was and ends normally, requesting a load
\* only for that kept department; and no step makes a known center department
\* unknown.
C29_CenterDepartmentKept ==
  /\ [][ (lastOp'.op = "moveend" /\ MoveendStep(map'.zoom, Null))
           => /\ map'.centerDeptCode = map.centerDeptCode
              /\ "uncaught" \notin lastOp'.did
              /\ \A d \in Depts :
                   (Requested("canton", d) \/ Requested("iris", d))
                     => d = map.centerDeptCode ]_vars
  /\ [][map.centerDeptCode # Null => map'.centerDeptCode # Null]_vars

C29_Witness ==
  /\ lastOp.op = "moveend"
  /\ map.zoom >= IRIS_ZOOM_THRESHOLD
  /\ map.centerDeptCode = Null
  /\ tasks = EmptyBag


\* the style's layers by role
LabelLayers == {"road-label", "place-city", "place-town", "place-village"}
CartographyLayers == {"road-minor"}
CantonLayers == {"canton-fill", "canton-outline"}
IrisLayers == {"iris-fill", "iris-outline"}

\* l1 is drawn beneath l2: it comes earlier in the style's layer list
Beneath(l1, l2) == IndexOf(map.layers, l1) < IndexOf(map.layers, l2)

\* C30: in every state, each canton or iris layer of the style lies beneath
\* every label layer and above every base cartography layer, the iris layers
\* lie above the canton layers, and no layer id occurs twice.
C30_LayerOrder ==
  LET present == {l \in CantonLayers \cup IrisLayers : hasLayer(map, l)}
  IN /\ \A i, j \in DOMAIN map.layers : map.layers[i] = map.layers[j] => i = j
     /\ \A l \in present :
          /\ \A lab \in LabelLayers : Beneath(l, lab)
          /\ \A b \in CartographyLayers : Beneath(b, l)
     /\ \A c \in present \cap CantonLayers, i \in present \cap IrisLayers : Beneath(c, i)

C30_Witness ==
  /\ "cantonInstalled" \in lastOp.did
  /\ map.layers = <<"road-minor", "canton-fill", "canton-outline", "iris-fill", "iris-outline">>
                    \o SubSeq(BaseLayers, 2, Len(BaseLayers))
  /\ map.loadedIrisDept # Null


\* C31 (as claimed): the boundary response of a canton load that arrives while
\* the view is settled below zoom 8 installs nothing, and after it no canton
\* layer, source or owner is resident; the same for an iris load and zoom 10.
C31_NoInstallBelowEviction ==
  [][ /\ \A t \in Waiting("canton", "fetch"), o \in FetchOutcomes :
           (map.zoom < CANTON_ZOOM_OUT /\ CantonFetchedStep(t, o))
             => /\ map'.loadedCantonDept = Null
                /\ map'.cantonSource = Null
                /\ ~hasLayer(map', "canton-fill")
      /\ \A t \in Waiting("iris", "fetch"), o \in FetchOutcomes :
           (map.zoom < IRIS_ZOOM_THRESHOLD - 10 /\ IrisFetchedStep(t, o))
             => /\ map'.loadedIrisDept = Null
                /\ map'.irisSource = Null
                /\ ~hasLayer(map', "iris-fill") ]_vars


\* the department that owned the selected canton or iris unit when it was
\* clicked: onUnitClick put it in the breadcrumb, before the unit
OwnerAtSelection == breadcrumb[Len(breadcrumb) - 1].code

\* C32 (as claimed): when the filter handler re-renders the selected canton
\* or iris unit, the detail queries read the view of the department that
\* owned the unit when it was selected.
C32_RefreshReadsOwnerAtSelection ==
  [][ \A t \in FilterRuns :
        \A u \in BagToSet(tasks') :
          ( /\ lastOp'.op = "filterResume"
            /\ t.pc # "detail"
            /\ u = [t EXCEPT !.pc = "detail", !.dept = u.dept, !.unit = selectedUnit]
            /\ selectedUnit.level \in {"canton", "iris"}
            /\ Len(breadcrumb) = 3 )
            => u.dept = OwnerAtSelection ]_vars


\* C33 (as claimed): when no filter-change handler is suspended any more, all
\* having had their queries answered, the department and EPCI population maps
\* and color scales are those computed for the current filter values.
C33_LatestFilterWins ==
  FilterRuns = {} =>
    /\ map.deptPopMap = Ranking("department", filterState)
    /\ map.deptColorScale = makeColorScale(Ranking("department", filterState))
    /\ map.epciPopMap = Ranking("epci", filterState)
    /\ map.epciColorScale = makeColorScale(Ranking("epci", filterState))


\* the step ends the handler t: t is gone and no handler is suspended in its place
Ends(t) == tasks' = tasks (-) SetToBag({t})

\* t is the only load in progress for its department in the canton (iris) sub-level
OnlyCantonLoadFor(t) == Copies({u \in CantonLoads : u.dept = t.dept}) = 1
OnlyIrisLoadFor(t) == Copies({u \in IrisLoads : u.dept = t.dept}) = 1

\* C34 (as claimed): when the handler of a canton (iris) load request for
\* department D ends, whatever the outcome, and no other load of the sub-level
\* for D is in progress, D is no longer the in-flight target of the sub-level;
\* and a settle event over D at or above the load threshold, while D is
\* neither resident nor being loaded, requests the load.
C34_MarkerClearedAtEnd ==
  [][ /\ \A t \in Waiting("canton", "data"), o \in {NoView, Threw} \cup RowOutcomes :
           (CantonDataStep(t, o) /\ Ends(t) /\ OnlyCantonLoadFor(t))
             => map'.cantonLoadingDept # t.dept
      /\ \A t \in Waiting("canton", "fetch"), o \in FetchOutcomes :
           (CantonFetchedStep(t, o) /\ OnlyCantonLoadFor(t))
             => map'.cantonLoadingDept # t.dept
      /\ \A t \in Waiting("iris", "data"), o \in {NoView, Threw} \cup IrisRowOutcomes :
           (IrisDataStep(t, o) /\ Ends(t) /\ OnlyIrisLoadFor(t))
             => /\ map'.irisLoadingDept # t.dept
                /\ (t.via = "canton" /\ OnlyCantonLoadFor(t)) => map'.cantonLoadingDept # t.dept
      /\ \A t \in Waiting("iris", "fetch"), o \in FetchOutcomes :
           (IrisFetchedStep(t, o) /\ OnlyIrisLoadFor(t))
             => /\ map'.irisLoadingDept # t.dept
                /\ (t.via = "canton" /\ OnlyCantonLoadFor(t)) => map'.cantonLoadingDept # t.dept
      /\ lastOp'.op = "moveend" =>
           LET D == map'.centerDeptCode
           IN /\ ( /\ D # Null /\ map'.zoom >= CANTON_ZOOM_THRESHOLD
                   /\ map.loadedCantonDept # D
                   /\ ~\E u \in CantonLoads : u.dept = D )
                   => Requested("canton", D)
              /\ ( /\ D # Null /\ map'.zoom >= IRIS_ZOOM_THRESHOLD
                   /\ map.loadedIrisDept # D
                   /\ ~\E u \in IrisLoads : u.dept = D )
                   => Requested("iris", D) ]_vars


\* C35 (as claimed): with the iris set of department D resident (installed by
\* the few-cantons fallback), a settle event at zoom >= 9 that keeps the center
\* over D leaves a set of D resident, iris or canton, or a load for D in
\* progress.
C35_FallbackSetKept ==
  [][ ( /\ lastOp'.op = "moveend"
        /\ map.loadedIrisDept # Null
        /\ map'.centerDeptCode = map.loadedIrisDept
        /\ map'.zoom >= CANTON_ZOOM_THRESHOLD )
        => \/ map'.loadedIrisDept = map.loadedIrisDept
           \/ map'.loadedCantonDept = map.loadedIrisDept
           \/ \E u \in BagToSet(tasks') :
                u.kind \in {"canton", "iris"} /\ u.dept = map.loadedIrisDept ]_vars


\* C36 (as claimed): one click on a canton (iris) feature runs the unit-click
\* callback for it once, however many times the layer has been installed.
C36_OneCallbackPerClick ==
  lastOp.op = "mapClick" => lastOp.did \cap {"cantonAgain", "irisAgain"} = {}


\* C37 (as claimed): once the detail queries of all the clicks have completed,
\* a detail shown by the sidebar is the detail of the unit clicked last (the
\* selected unit), whatever the order of the completions.
C37_DetailOfLastClicked ==
  (/\ lastOp.op = "clickDetail"
   /\ Pending(tasks, {"click"}) = 0
   /\ info[1] = "detail")
  => /\ info[2] = selectedUnit.level
     /\ info[3] = selectedUnit.code


\* C38 (as claimed): the filter store holds one listener of the explorer, the
\* one of the latest entry into the view, so that one filter change starts one
\* run of the filter handler.
C38_OneListenerRun ==
  [][lastOp'.op = "setFilter"
     => Pending(tasks', {"filter"}) <= Pending(tasks, {"filter"}) + 1]_vars


\* C39 (as claimed): every map that renderExplorer created is the current
\* controller or has been destroyed, also when renderExplorer is called again
\* while an earlier call awaits its ranking queries.
C39_OneMapAlive == view.orphans = 0


\* C40 (as claimed): every snapshot of the filters that a listener receives
\* has ageMin <= ageMax, whether the change comes from the age selects or from
\* a click on the age chart.
C40_AgeBoundsOrdered ==
  \A i \in DOMAIN ageFilter.delivered :
    ageFilter.delivered[i][1] <= ageFilter.delivered[i][2]

====
